---- MODULE Spec2Model ----
(***************************************************************************)
(* Model of gigvault/ocsp, internal/api/grpc_server.go: the OCSP status    *)
(* registry (UpdateStatus, CheckStatus, BatchUpdateStatus) over the        *)
(* ocsp_responses table.                                                   *)
(*                                                                         *)
(* Time is counted in hours.  A Go pointer / optional protobuf field is    *)
(* the empty sequence (nil) or a one-element sequence (set).  A protobuf   *)
(* Timestamp is the record [seconds |-> t]; a time.Time and a SQL          *)
(* timestamp are the number t.  A proto3 string that was not supplied is   *)
(* the empty string.                                                       *)
(***************************************************************************)
EXTENDS Integers, Sequences, FiniteSets, TLC

VARIABLES
    table,       \* the rows of ocsp_responses
    now,         \* the clock read by NOW() and time.Now()
    last,        \* the last completed direct call: its request, its store faults, the
                 \* clock (and, for a batch, the table) it started from, its response
    lastCommit,  \* history: per serial, the last UpdateStatus that returned success
    batch        \* per concurrent handler, the position of its BatchUpdateStatus loop

vars == <<table, now, last, lastCommit, batch>>

----------------------------------------------------------------------------
(* Bounds of the model *)

MaxClock == 1

MaxBatch == 3

MaxSmallBatch == 1

MaxConcBatch == 2

----------------------------------------------------------------------------
(* Values *)

Nil == <<>>

Some(x) == <<x>>

ValidityHours == 24

\* timestamppb.Timestamp.AsTime
AsTime(ts) == ts.seconds

\* timestamppb.New
TimestampNew(t) == [seconds |-> t]

\* the request fields callers may send
Serials == {"", "A", "B"}

StatusInputs == {"", "good", "revoked", "unknown", "expired"}

RevokedAtInputs == {Nil, Some(TimestampNew(0))}

ReasonInputs == {"", "key-compromise"}

UpdateStatusRequest(serial, status, revokedAt, reason) ==
    [SerialNumber |-> serial, Status |-> status,
     RevokedAt |-> revokedAt, RevocationReason |-> reason]

UpdateRequests ==
    {UpdateStatusRequest(s, st, ra, rr) :
        s \in {"", "A"}, st \in StatusInputs, ra \in RevokedAtInputs, rr \in ReasonInputs}

CheckRequests == [SerialNumber : Serials]

BatchItems ==
    { UpdateStatusRequest("A", "good", Nil, ""),
      UpdateStatusRequest("", "good", Nil, ""),
      UpdateStatusRequest("B", "revoked", Some(TimestampNew(0)), "key-compromise"),
      UpdateStatusRequest("A", "unknown", Nil, "") }

SeqsUpTo(S, n) == UNION {[1..k -> S] : k \in 0..n}

BatchRequests == SeqsUpTo(BatchItems, MaxBatch)

SmallBatchItems ==
    { UpdateStatusRequest("A", "unknown", Nil, ""),
      UpdateStatusRequest("B", "revoked", Some(TimestampNew(0)), "key-compromise") }

SmallBatchRequests == SeqsUpTo(SmallBatchItems, MaxSmallBatch)

----------------------------------------------------------------------------
(* The store *)

\* an upsert whose DO UPDATE SET list leaves out the revocation columns
UpsertKeepRevocation(tbl, serial, status, at, revokedAt, reason) ==
    IF \E r \in tbl : r.serial = serial
    THEN {IF r.serial = serial
          THEN [r EXCEPT !.status = status,
                         !.this_update = at,
                         !.next_update = at + ValidityHours]
          ELSE r : r \in tbl}
    ELSE tbl \cup {[serial |-> serial, status |-> status,
                    this_update |-> at, next_update |-> at + ValidityHours,
                    revoked_at |-> revokedAt, revocation_reason |-> reason]}

\* INSERT ... ON CONFLICT (serial) DO UPDATE SET ...
Upsert(tbl, serial, status, at, revokedAt, reason) ==
    LET new == [serial |-> serial, status |-> status,
                this_update |-> at, next_update |-> at + ValidityHours,
                revoked_at |-> revokedAt, revocation_reason |-> reason]
    IN  IF \E r \in tbl : r.serial = serial
        THEN {IF r.serial = serial
              THEN [r EXCEPT !.status = new.status,
                             !.this_update = at,
                             !.next_update = at + ValidityHours,
                             !.revoked_at = new.revoked_at,
                             !.revocation_reason = new.revocation_reason]
              ELSE r : r \in tbl}
        ELSE tbl \cup {new}

\* s.db.Exec: one statement, all or nothing; dbErr is a failed or cancelled call
Exec(tbl, serial, status, at, revokedAt, reason, dbErr) ==
    IF dbErr
    THEN [err |-> TRUE, table |-> tbl]
    ELSE [err |-> FALSE, table |-> Upsert(tbl, serial, status, at, revokedAt, reason)]

\* s.db.QueryRow(...).Scan(...)
QueryRow(tbl, serial, dbErr) ==
    IF dbErr
    THEN [err |-> "failure", row |-> Nil]
    ELSE IF \E r \in tbl : r.serial = serial
         THEN [err |-> "nil", row |-> Some(CHOOSE r \in tbl : r.serial = serial)]
         ELSE [err |-> "no rows", row |-> Nil]

----------------------------------------------------------------------------
(* UpdateStatus *)

\* no default for an omitted status
DefaultStatusKeep(status) == status

DefaultStatus(status) == IF status = "" THEN "good" ELSE status

\* no check of the status value
ValidStatusAny(status) == TRUE

ValidStatus(status) == status \in {"good", "revoked", "unknown"}

RevokedAtParam(status, revokedAt) ==
    IF status = "revoked" /\ revokedAt # Nil
    THEN Some(AsTime(revokedAt[1]))
    ELSE Nil

StatusError(tbl, execs, code, message) ==
    [table |-> tbl, execs |-> execs, code |-> code, message |-> message,
     success |-> FALSE]

UpdateStatus(tbl, at, req, dbErr) ==
    IF req.SerialNumber = ""
    THEN StatusError(tbl, 0, "InvalidArgument", "serial number is required")
    ELSE LET status == DefaultStatus(req.Status) IN
         IF ~ValidStatus(status)
         THEN StatusError(tbl, 0, "InvalidArgument",
                          "invalid status (must be: good, revoked, or unknown)")
         ELSE LET ex == Exec(tbl, req.SerialNumber, status, at,
                             RevokedAtParam(status, req.RevokedAt),
                             req.RevocationReason, dbErr)
              IN  IF ex.err
                  THEN StatusError(ex.table, 1, "Internal", "failed to update status")
                  ELSE [table |-> ex.table, execs |-> 1, code |-> "OK",
                        message |-> "status updated successfully", success |-> TRUE]

----------------------------------------------------------------------------
(* CheckStatus *)

CheckStatusResponse(code, status, thisUpdate, nextUpdate, revokedAt, reason) ==
    [code |-> code, Status |-> status, ThisUpdate |-> thisUpdate,
     NextUpdate |-> nextUpdate, RevokedAt |-> revokedAt, RevocationReason |-> reason]

\* a not-found response whose nextUpdate lacks the validity window
NotFoundResponseNoWindow(t1, t2) ==
    CheckStatusResponse("OK", "unknown", Some(TimestampNew(t1)),
                        Some(TimestampNew(t2)), Nil, "")

\* the response built when Scan returns an error; t1 and t2 are the two clock reads
NotFoundResponse(t1, t2) ==
    CheckStatusResponse("OK", "unknown", Some(TimestampNew(t1)),
                        Some(TimestampNew(t2 + ValidityHours)), Nil, "")

\* the response built from a scanned row
FoundResponse(row) ==
    CheckStatusResponse("OK", row.status, Some(TimestampNew(row.this_update)),
                        Some(TimestampNew(row.next_update)),
                        IF row.revoked_at # Nil
                        THEN Some(TimestampNew(row.revoked_at[1])) ELSE Nil,
                        IF row.revoked_at # Nil THEN row.revocation_reason ELSE "")

CheckStatus(tbl, t1, t2, req, dbErr) ==
    IF req.SerialNumber = ""
    THEN CheckStatusResponse("InvalidArgument", "", Nil, Nil, Nil, "")
    ELSE LET q == QueryRow(tbl, req.SerialNumber, dbErr) IN
         IF q.err # "nil"
         THEN NotFoundResponse(t1, t2)
         ELSE FoundResponse(q.row[1])

----------------------------------------------------------------------------
(* BatchUpdateStatus *)

\* err.Error() of a gRPC status error
ErrorString(code, message) == <<"rpc error", code, message>>

\* the loop over req.Updates from item i on; acc holds the table, the counters,
\* the errors and the per-item result codes so far
RECURSIVE BatchLoop(_, _, _, _, _)
BatchLoop(acc, at, updates, faults, i) ==
    IF i > Len(updates)
    THEN acc
    ELSE LET r == UpdateStatus(acc.table, at, updates[i], faults[i])
             next == IF r.code # "OK"
                     THEN [acc EXCEPT !.table = r.table,
                                      !.failureCount = @ + 1,
                                      !.errors = Append(@, ErrorString(r.code, r.message)),
                                      !.results = Append(@, r.code)]
                     ELSE [acc EXCEPT !.table = r.table,
                                      !.successCount = @ + 1,
                                      !.results = Append(@, r.code)]
         IN  BatchLoop(next, at, updates, faults, i + 1)

\* a loop that counts every item as a success (the else is missing)
RECURSIVE BatchLoopNoElse(_, _, _, _, _)
BatchLoopNoElse(acc, at, updates, faults, i) ==
    IF i > Len(updates)
    THEN acc
    ELSE LET r == UpdateStatus(acc.table, at, updates[i], faults[i])
             failed == IF r.code # "OK"
                       THEN [acc EXCEPT !.failureCount = @ + 1,
                                        !.errors = Append(@, ErrorString(r.code, r.message))]
                       ELSE acc
             next == [failed EXCEPT !.table = r.table,
                                    !.successCount = @ + 1,
                                    !.results = Append(@, r.code)]
         IN  BatchLoopNoElse(next, at, updates, faults, i + 1)

BatchUpdateStatusNoElse(tbl, at, updates, faults) ==
    LET acc == BatchLoopNoElse([table |-> tbl, successCount |-> 0, failureCount |-> 0,
                                errors |-> <<>>, results |-> <<>>],
                               at, updates, faults, 1)
    IN  [table |-> acc.table, code |-> "OK", results |-> acc.results,
         SuccessCount |-> acc.successCount, FailureCount |-> acc.failureCount,
         Errors |-> acc.errors]

\* a loop that stops at the first failing item
RECURSIVE BatchLoopAbort(_, _, _, _, _)
BatchLoopAbort(acc, at, updates, faults, i) ==
    IF i > Len(updates)
    THEN acc
    ELSE LET r == UpdateStatus(acc.table, at, updates[i], faults[i])
         IN  IF r.code # "OK"
             THEN [acc EXCEPT !.table = r.table,
                              !.failureCount = @ + 1,
                              !.errors = Append(@, ErrorString(r.code, r.message)),
                              !.results = Append(@, r.code)]
             ELSE BatchLoopAbort([acc EXCEPT !.table = r.table,
                                             !.successCount = @ + 1,
                                             !.results = Append(@, r.code)],
                                 at, updates, faults, i + 1)

BatchUpdateStatusAbort(tbl, at, updates, faults) ==
    LET acc == BatchLoopAbort([table |-> tbl, successCount |-> 0, failureCount |-> 0,
                               errors |-> <<>>, results |-> <<>>],
                              at, updates, faults, 1)
    IN  [table |-> acc.table, code |-> "OK", results |-> acc.results,
         SuccessCount |-> acc.successCount, FailureCount |-> acc.failureCount,
         Errors |-> acc.errors]

BatchUpdateStatus(tbl, at, updates, faults) ==
    LET acc == BatchLoop([table |-> tbl, successCount |-> 0, failureCount |-> 0,
                          errors |-> <<>>, results |-> <<>>],
                         at, updates, faults, 1)
    IN  [table |-> acc.table, code |-> "OK", results |-> acc.results,
         SuccessCount |-> acc.successCount, FailureCount |-> acc.failureCount,
         Errors |-> acc.errors]

----------------------------------------------------------------------------
(* History *)

NonEmptySerials == Serials \ {""}

\* the last item of a batch that returned success for serial s, or 0
LastOk(updates, results, s) ==
    LET ok == {i \in 1..Len(results) :
                  results[i] = "OK" /\ updates[i].SerialNumber = s}
    IN  IF ok = {} THEN 0 ELSE CHOOSE i \in ok : \A j \in ok : j <= i

CommitOne(lc, req, code, at) ==
    IF code = "OK"
    THEN [lc EXCEPT ![req.SerialNumber] = Some([req |-> req, at |-> at])]
    ELSE lc

CommitBatch(lc, updates, results, at) ==
    [s \in NonEmptySerials |->
        IF LastOk(updates, results, s) = 0
        THEN lc[s]
        ELSE Some([req |-> updates[LastOk(updates, results, s)], at |-> at])]

----------------------------------------------------------------------------
(* The server handling one request at a time *)

Idle == [pc |-> "idle"]

Procs == {"h1", "h2"}

Init ==
    /\ table = {}
    /\ now = 0
    /\ last = [op |-> "none"]
    /\ lastCommit = [s \in NonEmptySerials |-> Nil]
    /\ batch = [p \in Procs |-> Idle]

Tick ==
    /\ now < MaxClock
    /\ now' = now + 1
    /\ UNCHANGED <<table, last, lastCommit, batch>>

UpdateStatusCall(reqs) ==
    \E req \in reqs, dbErr \in BOOLEAN :
        LET r == UpdateStatus(table, now, req, dbErr) IN
        /\ table' = r.table
        /\ last' = [op |-> "UpdateStatus", req |-> req, dbErr |-> dbErr, at |-> now,
                    resp |-> [code |-> r.code, message |-> r.message,
                              success |-> r.success]]
        /\ lastCommit' = CommitOne(lastCommit, req, r.code, now)
        /\ UNCHANGED <<now, batch>>

CheckStatusCall ==
    \E req \in CheckRequests, dbErr \in BOOLEAN, d \in 0..1 :
        /\ now + d <= MaxClock
        /\ now' = now + d
        /\ last' = [op |-> "CheckStatus", req |-> req, dbErr |-> dbErr, at |-> now,
                    end |-> now + d,
                    resp |-> CheckStatus(table, now, now + d, req, dbErr)]
        /\ UNCHANGED <<table, lastCommit, batch>>

\* the store can fail only the items that reach it
StoreFaults(updates) ==
    {f \in [1..Len(updates) -> BOOLEAN] :
        \A i \in 1..Len(updates) :
            f[i] => UpdateStatus({}, 0, updates[i], FALSE).execs > 0}

BatchUpdateStatusCall(batches) ==
    \E updates \in batches :
        \E faults \in StoreFaults(updates) :
            LET r == BatchUpdateStatus(table, now, updates, faults) IN
            /\ table' = r.table
            /\ last' = [op |-> "BatchUpdateStatus", req |-> updates, faults |-> faults,
                        at |-> now, before |-> table,
                        resp |-> [code |-> r.code, SuccessCount |-> r.SuccessCount,
                                  FailureCount |-> r.FailureCount, Errors |-> r.Errors]]
            /\ lastCommit' = CommitBatch(lastCommit, updates, r.results, now)
            /\ UNCHANGED <<now, batch>>

Next ==
    \/ Tick
    \/ UpdateStatusCall(UpdateRequests)
    \/ CheckStatusCall
    \/ BatchUpdateStatusCall(SmallBatchRequests)

Spec == Init /\ [][Next]_vars

\* the same server under a workload of direct updates followed by one batch
BatchPending == last.op # "BatchUpdateStatus"

NextBatch ==
    \/ BatchPending /\ Tick
    \/ BatchPending /\ UpdateStatusCall(BatchItems)
    \/ BatchPending /\ BatchUpdateStatusCall(BatchRequests)

SpecBatch == Init /\ [][NextBatch]_vars

----------------------------------------------------------------------------
(* The server handling requests concurrently: each handler in Procs runs    *)
(* BatchUpdateStatus one store round trip at a time, and direct UpdateStatus *)
(* calls, which make a single round trip, fall between those steps.          *)

ConcItems ==
    { UpdateStatusRequest("A", "good", Nil, "key-compromise"),
      UpdateStatusRequest("A", "revoked", Some(TimestampNew(0)), "") }

ConcBatchRequests == SeqsUpTo(ConcItems, MaxConcBatch)

BatchReceive(p) ==
    /\ batch[p].pc # "loop"
    /\ \E updates \in ConcBatchRequests :
          batch' = [batch EXCEPT ![p] =
                       [pc |-> "loop", updates |-> updates, i |-> 1,
                        successCount |-> 0, failureCount |-> 0, errors |-> <<>>]]
    /\ UNCHANGED <<table, now, last, lastCommit>>

BatchIterate(p) ==
    /\ batch[p].pc = "loop"
    /\ batch[p].i <= Len(batch[p].updates)
    /\ \E dbErr \in BOOLEAN :
          LET update == batch[p].updates[batch[p].i]
              r == UpdateStatus(table, now, update, dbErr)
          IN  /\ table' = r.table
              /\ lastCommit' = CommitOne(lastCommit, update, r.code, now)
              /\ batch' = [batch EXCEPT ![p] =
                    IF r.code # "OK"
                    THEN [@ EXCEPT !.i = @ + 1,
                                   !.failureCount = @ + 1,
                                   !.errors = Append(@, ErrorString(r.code, r.message))]
                    ELSE [@ EXCEPT !.i = @ + 1,
                                   !.successCount = @ + 1]]
    /\ UNCHANGED <<now, last>>

BatchReturn(p) ==
    /\ batch[p].pc = "loop"
    /\ batch[p].i > Len(batch[p].updates)
    /\ batch' = [batch EXCEPT ![p] = Idle]
    /\ UNCHANGED <<table, now, last, lastCommit>>

NextConc ==
    \/ Tick
    \/ UpdateStatusCall(ConcItems)
    \/ \E p \in Procs : BatchReceive(p)
    \/ \E p \in Procs : BatchIterate(p)
    \/ \E p \in Procs : BatchReturn(p)

SpecConc == Init /\ [][NextConc]_vars

----------------------------------------------------------------------------
(* Vocabulary of the properties *)

StatusValues == {"good", "revoked", "unknown"}

Rows(tbl, s) == {r \in tbl : r.serial = s}

\* the record a successful UpdateStatus(req) at time at writes when it runs alone
WrittenRows(req, at) == UpdateStatus({}, at, req, FALSE).table

\* the request is rejected by validation
InvalidInput(req) ==
    \/ req.SerialNumber = ""
    \/ req.Status \notin StatusValues \cup {""}

\* the item does not succeed: it is invalid, or its store call fails
ItemFails(req, fault) == InvalidInput(req) \/ fault

ItemError(req, fault) ==
    IF req.SerialNumber = ""
    THEN <<"rpc error", "InvalidArgument", "serial number is required">>
    ELSE IF InvalidInput(req)
         THEN <<"rpc error", "InvalidArgument",
                "invalid status (must be: good, revoked, or unknown)">>
         ELSE <<"rpc error", "Internal", "failed to update status">>

FailedItems(updates, faults) ==
    SelectSeq([i \in 1..Len(updates) |-> i],
              LAMBDA i : ItemFails(updates[i], faults[i]))

\* the last item for serial s that succeeds, or 0
Winner(updates, faults, s) ==
    LET ok == {i \in 1..Len(updates) :
                  updates[i].SerialNumber = s /\ ~ItemFails(updates[i], faults[i])}
    IN  IF ok = {} THEN 0 ELSE CHOOSE i \in ok : \A j \in ok : j <= i

\* UpdateStatus called on each item in order
RECURSIVE ApplyInOrder(_, _, _, _, _)
ApplyInOrder(tbl, at, updates, faults, i) ==
    IF i > Len(updates)
    THEN tbl
    ELSE ApplyInOrder(UpdateStatus(tbl, at, updates[i], faults[i]).table,
                      at, updates, faults, i + 1)

LastChecked == last.op = "CheckStatus" /\ last.req.SerialNumber # ""

LastWrite(s) == lastCommit[s][1]

----------------------------------------------------------------------------
(* Properties of single calls, under Spec *)

\* C1: after an UpdateStatus(serial, s) that returned success, s one of good,
\* revoked, unknown, and no later write to that serial, CheckStatus(serial)
\* returns status s.
C1_CheckReturnsWrittenStatus ==
    (/\ LastChecked
     /\ lastCommit[last.req.SerialNumber] # Nil
     /\ LastWrite(last.req.SerialNumber).req.Status \in StatusValues)
    => /\ last.resp.code = "OK"
       /\ last.resp.Status = LastWrite(last.req.SerialNumber).req.Status

\* The part of C1 the code keeps: when the lookup itself does not fail,
\* CheckStatus returns the status last written.
CheckReturnsWrittenStatusWhenLookupSucceeds ==
    (/\ LastChecked
     /\ ~last.dbErr
     /\ lastCommit[last.req.SerialNumber] # Nil
     /\ LastWrite(last.req.SerialNumber).req.Status \in StatusValues)
    => /\ last.resp.code = "OK"
       /\ last.resp.Status = LastWrite(last.req.SerialNumber).req.Status

\* C2: a call whose store access fails returns an internal error, never a
\* success response, and leaves the table as it was; CheckStatus answers
\* unknown only when no row exists, not when the lookup failed.
C2_StoreFailureIsInternalError ==
    /\ \A req \in UpdateRequests :
          LET r == UpdateStatus(table, now, req, TRUE)
          IN  r.execs > 0 => r.code = "Internal" /\ ~r.success /\ r.table = table
    /\ (LastChecked /\ last.dbErr) => last.resp.code = "Internal"

\* The part of C2 the code keeps: a failed Exec makes UpdateStatus return
\* Internal and leaves the table unchanged.
UpdateStoreFailureIsInternalError ==
    /\ \A req \in UpdateRequests :
          LET r == UpdateStatus(table, now, req, TRUE)
          IN  r.execs > 0 => r.code = "Internal" /\ ~r.success /\ r.table = table
    /\ (last.op = "UpdateStatus" /\ last.dbErr /\ ~InvalidInput(last.req))
          => last.resp.code = "Internal" /\ ~last.resp.success

\* C3: for a non-empty serial that no UpdateStatus has ever written, CheckStatus
\* returns success with status unknown, thisUpdate a reading of the clock taken
\* during the call, nextUpdate such a reading plus 24 hours, and no revocation
\* fields.
C3_UnwrittenSerialIsUnknown ==
    (LastChecked /\ lastCommit[last.req.SerialNumber] = Nil)
    => /\ last.resp.code = "OK"
       /\ last.resp.Status = "unknown"
       /\ last.resp.ThisUpdate # Nil
       /\ last.resp.ThisUpdate[1].seconds \in last.at..last.end
       /\ last.resp.NextUpdate # Nil
       /\ last.resp.NextUpdate[1].seconds - 24 \in last.at..last.end
       /\ last.resp.RevokedAt = Nil
       /\ last.resp.RevocationReason = ""

C3_Witness ==
    /\ LastChecked
    /\ last.req.SerialNumber = "B"
    /\ ~last.dbErr
    /\ lastCommit["B"] = Nil
    /\ lastCommit["A"] # Nil
    /\ last.resp.Status = "unknown"
    /\ last.resp.NextUpdate = Some(TimestampNew(last.end + 24))

\* C4: UpdateStatus with an empty serial, or with a non-empty status outside
\* good, revoked, unknown, fails with InvalidArgument without any store access
\* and leaves the table unchanged, from every reachable table.
C4_InvalidInputRejectedBeforeStore ==
    /\ \A req \in UpdateRequests, dbErr \in BOOLEAN :
          LET r == UpdateStatus(table, now, req, dbErr)
          IN  InvalidInput(req)
              => /\ r.code = "InvalidArgument"
                 /\ ~r.success
                 /\ r.execs = 0
                 /\ r.table = table
    /\ (last.op = "UpdateStatus" /\ InvalidInput(last.req))
          => last.resp.code = "InvalidArgument" /\ ~last.resp.success
    /\ \A r \in table : r.serial # "" /\ r.status \in StatusValues

C4_Witness ==
    /\ last.op = "UpdateStatus"
    /\ last.req.SerialNumber = "A"
    /\ last.req.Status = "expired"
    /\ ~last.dbErr
    /\ last.resp.code = "InvalidArgument"
    /\ \E r \in table : r.serial = "A" /\ r.status = "revoked"

\* C7: a stored row holds a revocation reason only together with a revocation
\* timestamp, and holds either only when its status is revoked; a successful
\* UpdateStatus that is not (revoked with a timestamp) stores both as absent.
C7_RevocationFieldsOnlyWhenRevoked ==
    /\ \A r \in table :
          /\ r.revocation_reason # "" => r.revoked_at # Nil
          /\ (r.revocation_reason # "" \/ r.revoked_at # Nil) => r.status = "revoked"
    /\ (/\ last.op = "UpdateStatus"
        /\ last.resp.success
        /\ ~(last.req.Status = "revoked" /\ last.req.RevokedAt # Nil))
       => \A r \in Rows(table, last.req.SerialNumber) :
             r.revoked_at = Nil /\ r.revocation_reason = ""

\* The part of C7 the code keeps: the revocation timestamp is stored only for a
\* revoked row.
RevokedAtOnlyWhenRevoked ==
    \A r \in table : r.revoked_at # Nil => r.status = "revoked"

\* C8: after a successful UpdateStatus(serial, revoked, T, R) with no later
\* write to the serial, CheckStatus(serial) returns revoked with revokedAt = T
\* and revocationReason = R; and a response carries revocation fields only when
\* the row holds them.
C8_RevocationRoundTrip ==
    /\ (/\ LastChecked
        /\ lastCommit[last.req.SerialNumber] # Nil
        /\ LastWrite(last.req.SerialNumber).req.Status = "revoked"
        /\ LastWrite(last.req.SerialNumber).req.RevokedAt # Nil)
       => /\ last.resp.Status = "revoked"
          /\ last.resp.RevokedAt = LastWrite(last.req.SerialNumber).req.RevokedAt
          /\ last.resp.RevocationReason =
                LastWrite(last.req.SerialNumber).req.RevocationReason
    /\ (LastChecked /\ (last.resp.RevokedAt # Nil \/ last.resp.RevocationReason # ""))
       => \E r \in Rows(table, last.req.SerialNumber) : r.revoked_at # Nil

\* The part of C8 the code keeps: the round trip when the lookup does not fail.
RevocationRoundTripWhenLookupSucceeds ==
    /\ (/\ LastChecked
        /\ ~last.dbErr
        /\ lastCommit[last.req.SerialNumber] # Nil
        /\ LastWrite(last.req.SerialNumber).req.Status = "revoked"
        /\ LastWrite(last.req.SerialNumber).req.RevokedAt # Nil)
       => /\ last.resp.Status = "revoked"
          /\ last.resp.RevokedAt = LastWrite(last.req.SerialNumber).req.RevokedAt
          /\ last.resp.RevocationReason =
                LastWrite(last.req.SerialNumber).req.RevocationReason
    /\ (LastChecked /\ (last.resp.RevokedAt # Nil \/ last.resp.RevocationReason # ""))
       => \E r \in Rows(table, last.req.SerialNumber) : r.revoked_at # Nil

\* C10: from every reachable table, UpdateStatus with the status omitted gives
\* the same response and the same table as UpdateStatus with status good and
\* otherwise the same arguments.
C10_OmittedStatusIsGood ==
    \A req \in UpdateRequests, dbErr \in BOOLEAN :
        req.Status = ""
        => UpdateStatus(table, now, req, dbErr)
              = UpdateStatus(table, now, [req EXCEPT !.Status = "good"], dbErr)

C10_Witness ==
    /\ last.op = "UpdateStatus"
    /\ last.req.Status = ""
    /\ last.req.RevokedAt # Nil
    /\ last.resp.success
    /\ last.at > 0
    /\ \E r \in table : r.serial = last.req.SerialNumber /\ r.status = "good"
                        /\ r.this_update = last.at

----------------------------------------------------------------------------
(* Properties of a batch, under SpecBatch *)

\* C5: a batch of N items of which K fail returns successCount = N - K,
\* failureCount = K and the K error messages of the failed items in input
\* order; the counts add up to N (also for N = 0 and K = N).
C5_BatchCounts ==
    last.op = "BatchUpdateStatus"
    => LET N == Len(last.req)
           failed == FailedItems(last.req, last.faults)
           K == Len(failed)
       IN  /\ last.resp.code = "OK"
           /\ last.resp.SuccessCount = N - K
           /\ last.resp.FailureCount = K
           /\ last.resp.SuccessCount + last.resp.FailureCount = N
           /\ Len(last.resp.Errors) = K
           /\ \A k \in 1..K :
                 last.resp.Errors[k]
                    = ItemError(last.req[failed[k]], last.faults[failed[k]])

C5_Witness ==
    /\ last.op = "BatchUpdateStatus"
    /\ Len(last.req) = 3
    /\ last.req[1].SerialNumber = ""
    /\ last.req[2].SerialNumber = "A" /\ ~last.faults[2]
    /\ last.req[3].SerialNumber = "B" /\ last.faults[3]
    /\ last.resp.SuccessCount = 1
    /\ last.resp.FailureCount = 2
    /\ Len(last.resp.Errors) = 2

\* C6: a batch always returns a result; every item that succeeds is persisted
\* whether or not an item before or after it fails; for each serial the row
\* left is the one written by the last succeeding item for it (the row from
\* before the batch if there is none); and the table equals the one reached by
\* calling UpdateStatus on each item in order.
C6_BatchIsSequenceOfUpdates ==
    last.op = "BatchUpdateStatus"
    => /\ last.resp.code = "OK"
       /\ table = ApplyInOrder(last.before, last.at, last.req, last.faults, 1)
       /\ \A s \in NonEmptySerials :
             LET w == Winner(last.req, last.faults, s)
             IN  Rows(table, s) = IF w = 0
                                  THEN Rows(last.before, s)
                                  ELSE WrittenRows(last.req[w], last.at)

C6_Witness ==
    /\ last.op = "BatchUpdateStatus"
    /\ Len(last.req) = 3
    /\ last.req[1].SerialNumber = "A" /\ ~last.faults[1]
    /\ last.req[2].SerialNumber = ""
    /\ last.req[3].SerialNumber = "B" /\ ~last.faults[3]
    /\ \E r \in last.before : r.serial = "A" /\ r.status # last.req[1].Status
    /\ Rows(last.before, "B") = {}
    /\ \E r \in table : r.serial = "A" /\ r.status = last.req[1].Status
    /\ \E r \in table : r.serial = "B" /\ r.status = "revoked"

----------------------------------------------------------------------------
(* Properties of concurrent handlers, under SpecConc *)

\* C9: in every interleaving of concurrent UpdateStatus calls the table holds
\* at most one row per serial, none before the first commit, and afterwards
\* exactly the row written by the last upsert to commit, in all its fields,
\* with nextUpdate = thisUpdate + 24 hours.
C9_LastCommitWins ==
    \A s \in NonEmptySerials :
        /\ Cardinality(Rows(table, s)) <= 1
        /\ lastCommit[s] = Nil => Rows(table, s) = {}
        /\ lastCommit[s] # Nil
           => /\ Rows(table, s) = WrittenRows(LastWrite(s).req, LastWrite(s).at)
              /\ \A r \in Rows(table, s) :
                    /\ r.this_update = LastWrite(s).at
                    /\ r.next_update = r.this_update + 24

C9_Witness ==
    /\ batch["h1"].pc = "loop" /\ batch["h2"].pc = "loop"
    /\ batch["h1"].i = 2 /\ batch["h2"].i = 2
    /\ Len(batch["h1"].updates) = 2 /\ Len(batch["h2"].updates) = 2
    /\ batch["h1"].successCount = 1 /\ batch["h2"].successCount = 1
    /\ batch["h1"].updates[1] # batch["h2"].updates[1]
    /\ lastCommit["A"] # Nil
    /\ LastWrite("A").req = batch["h1"].updates[1]
    /\ \E r \in table : r.serial = "A" /\ r.status = "good" /\ r.revoked_at = Nil

====
